---- MODULE Spec2Model ----
(***************************************************************************)
(* Fixed-basis multi-scalar multiplication engine of go-ipa                *)
(* (packages pipfixedbasis and bandersnatch).                              *)
(*                                                                         *)
(* The repository holds four engines; `variant` names the one a behaviour  *)
(* runs:                                                                   *)
(*   "pip256"  src/unnamed/part_002  hot prefix 256, widths 16/8, parallel *)
(*             precomp path, no cold points                                *)
(*   "pip5"    src/unnamed/part_003  hot prefix 5, width 16, serial        *)
(*             precomp path, Pippenger on the cold points                  *)
(*   "bs5"     src/bandersnatch/multiexp_fixedbasis.go:1-191  hot prefix 5 *)
(*             with an unsigned table, Pippenger on the cold points        *)
(*   "bsPip"   src/bandersnatch/multiexp_fixedbasis.go:193-317  Pippenger  *)
(*             only                                                        *)
(* The hot points' tables are those of src/pipfixedbasis/precomp.go.       *)
(*                                                                         *)
(* The curve group and the scalar field are collaborators whose code is    *)
(* not part of the sources: the group is the cyclic group Z_r written      *)
(* additively, the field is F_r with Montgomery radix 2^256, and r is a    *)
(* 17-bit prime (TLC's integers are 32 bits wide), so a reduced scalar     *)
(* fills limb 0's low 17 bits.  Limbs keep their 64 bits: a limb is four   *)
(* 16-bit chunks, least significant first.                                 *)
(***************************************************************************)
EXTENDS Integers, Sequences, FiniteSets, TLC

\* ------------------------------------------------------------------ bounds
\* runtime.NumCPU() ranges over 1..MaxCPU.
MaxCPU == 6
\* The longest basis of the engines that keep ladders.
MaxPoints == 22
\* MSM calls in flight on one engine in SpecConc.
MaxCalls == 2

\* ------------------------------------------------------- program constants
fieldSizeBits == 256
LimbBits == 64
Limbs == 4
ChunkBits == 16
maxMsmLength == 256
minScalarsPerRoutine == 4
minWorkPerRoutine == 8
bucketzLen == 129

Variants == {"pip256", "pip5", "bs5", "bsPip"}

\* precompNumPoints of each engine (bsPip has no hot prefix).
precompNumPoints(v) ==
  CASE v = "pip256" -> 256
    [] v = "pip5" -> 5
    [] v = "bs5" -> 5
    [] OTHER -> 0

\* pipperMsmLength: the length of the pointsPowers array.
pipperMsmLength(v) == maxMsmLength - precompNumPoints(v)

\* ------------------------------------------------ the group and the field
GroupOrder == 118709

Identity == 0

\* PointProj{}: the zero value returned beside an error; no group element.
NoPoint == -1

Pow2(n) == 2 ^ n

\* a * b mod r without leaving 31 bits (a, b < 2^17).
MulMod(a, b) ==
  ((((a * (b \div 256)) % GroupOrder) * 256) + a * (b % 256)) % GroupOrder

Add(a, b) == (a + b) % GroupOrder

MixedAdd(a, b) == (a + b) % GroupOrder

Neg(a) == (GroupOrder - a) % GroupOrder

\* PointAffine.ScalarMul(p, s), s the standard value of the field element.
PointScalarMul(p, s) == MulMod(p, s % GroupOrder)

\* b^e mod r by squaring.
RECURSIVE ModPow(_, _)
ModPow(b, e) ==
  IF e = 0 THEN 1
  ELSE LET h == ModPow(b, e \div 2)
           h2 == MulMod(h, h)
       IN IF e % 2 = 0 THEN h2 ELSE MulMod(h2, b)

\* The Montgomery radix 2^256 mod r, and its inverse.
RMont == ModPow(2, Limbs * LimbBits)

RInv == ModPow(RMont, GroupOrder - 2)

\* fr.Element.FromMont: the standard value of a Montgomery-form element.
FromMont(x) == MulMod(x, RInv)

\* The Montgomery form of a standard value (what SetUint64/SetRandom store).
ToMont(x) == MulMod(x % GroupOrder, RMont)

\* fr.Element.IsZero (0 is its own Montgomery form).
IsZero(x) == x = 0

\* Field addition, on Montgomery forms.
FrAdd(x, y) == (x + y) % GroupOrder

\* The four limbs of a standard value below r, each as four chunks.
ToLimbs(x) ==
  << << x % Pow2(ChunkBits), x \div Pow2(ChunkBits), 0, 0 >>,
     << 0, 0, 0, 0 >>, << 0, 0, 0, 0 >>, << 0, 0, 0, 0 >> >>

ChunkAt(limb, i) == IF i < LimbBits \div ChunkBits THEN limb[i + 1] ELSE 0

\* The shifted limb under a mask one bit too wide.
WindowBitsWideMask(limb, shift, ws) ==
  LET ci == shift \div ChunkBits
      off == shift % ChunkBits
      lo == ChunkAt(limb, ci) \div Pow2(off)
  IN IF off + ws + 1 <= ChunkBits
       THEN lo % Pow2(ws + 1)
       ELSE lo + (ChunkAt(limb, ci + 1) % Pow2(off + ws + 1 - ChunkBits))
                   * Pow2(ChunkBits - off)

\* (limb >> shift) & ((1 << ws) - 1) on a uint64, for ws <= 16.
WindowBits(limb, shift, ws) ==
  LET ci == shift \div ChunkBits
      off == shift % ChunkBits
      lo == ChunkAt(limb, ci) \div Pow2(off)
  IN IF off + ws <= ChunkBits
       THEN lo % Pow2(ws)
       ELSE lo + (ChunkAt(limb, ci + 1) % Pow2(off + ws - ChunkBits))
                   * Pow2(ChunkBits - off)

\* ------------------------------------------------------------ PrecompPoint
\* A PrecompPoint holds (256/w) windows of 2^(w-1) affine points.  The state
\* keeps the window width and the point the table was built from; Windows
\* gives the entry the build loop of NewPrecompPoint stores.
NewPrecompPoint(point, windowSize) ==
  [windowSize |-> windowSize, point |-> point]

\* len(res.windows) and len(res.windows[i]).
NumWindowsOf(pp) == 256 \div pp.windowSize

TableLenOf(pp) == Pow2(pp.windowSize - 1)

\* The value of `point` when the task of window i is created: i times
\* point.ScalarMul(&point, &specialWindow), specialWindow = 1 << windowSize.
RECURSIVE WindowBaseLoop(_, _, _)
WindowBaseLoop(pp, i, st) ==
  IF st[1] >= i THEN st[2]
  ELSE WindowBaseLoop(pp, i,
                      << st[1] + 1,
                         PointScalarMul(st[2], Pow2(pp.windowSize)) >>)

WindowBase(pp, i) == WindowBaseLoop(pp, i, << 0, pp.point >>)

\* A table whose entries sit one place too low.
WindowsOffByOne(pp, i, j) == MulMod(WindowBase(pp, i), j + 2)

\* res.windows[i][j]: curr after j additions of base to base.
Windows(pp, i, j) == MulMod(WindowBase(pp, i), j + 1)

\* The loops below carry their whole state, the counter included, in one
\* tuple st, as the code's loop variables.

\* A loop body that never carries into the next window.
ScalarMulWindowNoCarry(pp, limbs, st) ==
  LET numWindowsInLimb == LimbBits \div pp.windowSize
      t == st[1]
      windowValue ==
        WindowBits(limbs[(t \div numWindowsInLimb) + 1],
                   pp.windowSize * (t % numWindowsInLimb), pp.windowSize)
  IN IF windowValue = 0 THEN << t + 1, 0, st[3] >>
     ELSE IF windowValue > Pow2(pp.windowSize - 1)
       THEN << t + 1, 0,
               MixedAdd(st[3], Neg(Windows(pp, t, Pow2(pp.windowSize)
                                                 - windowValue - 1))) >>
     ELSE << t + 1, 0, MixedAdd(st[3], Windows(pp, t, windowValue - 1)) >>

\* The loop body of PrecompPoint.ScalarMul for window t = l*numWindowsInLimb+w;
\* st = <<t, carry, res>>.
ScalarMulWindow(pp, limbs, st) ==
  LET numWindowsInLimb == LimbBits \div pp.windowSize
      t == st[1]
      l == t \div numWindowsInLimb
      w == t % numWindowsInLimb
      windowValue ==
        WindowBits(limbs[l + 1], pp.windowSize * w, pp.windowSize) + st[2]
  IN IF windowValue = 0 THEN << t + 1, st[2], st[3] >>
     ELSE IF windowValue > Pow2(pp.windowSize - 1)
       THEN LET neg == Pow2(pp.windowSize) - windowValue
            IN << t + 1, 1,
                  IF neg # 0 THEN MixedAdd(st[3], Neg(Windows(pp, t, neg - 1)))
                  ELSE st[3] >>
       ELSE << t + 1, 0, MixedAdd(st[3], Windows(pp, t, windowValue - 1)) >>

\* The window loops run limb by limb.  In a limb of zeros entered with no
\* carry every window value is 0 and every iteration is the `continue`, so
\* the loops below pass such a limb in one step.
LimbIsZero(limb) == \A i \in DOMAIN limb : limb[i] = 0

SkipsLimb(limbs, t, carry, perLimb) ==
  carry = 0 /\ t % perLimb = 0 /\ LimbIsZero(limbs[(t \div perLimb) + 1])

RECURSIVE ScalarMulLoop(_, _, _)
ScalarMulLoop(pp, limbs, st) ==
  IF st[1] >= Limbs * (LimbBits \div pp.windowSize) THEN st
  ELSE IF SkipsLimb(limbs, st[1], st[2], LimbBits \div pp.windowSize)
    THEN ScalarMulLoop(pp, limbs,
                       << st[1] + (LimbBits \div pp.windowSize), 0, st[3] >>)
  ELSE ScalarMulLoop(pp, limbs, ScalarMulWindow(pp, limbs, st))

\* PrecompPoint.ScalarMul(scalar, res): res after the call.  The scalar is a
\* copy, taken out of Montgomery form.
ScalarMul(pp, scalar, res) ==
  ScalarMulLoop(pp, ToLimbs(FromMont(scalar)), << 0, 0, res >>)[3]

\* firstFivePrecomp[k][windowIdx][j] of the bs5 engine: j times the base.
FirstFivePrecomp(pp, windowIdx, j) == MulMod(WindowBase(pp, windowIdx), j)

\* msmPrecomp of bs5 for one scalar: unsigned windows; st = <<t, res>>.
UnsignedWindow(pp, limbs, st) ==
  LET numWindowsInLimb == LimbBits \div pp.windowSize
      t == st[1]
      window == WindowBits(limbs[(t \div numWindowsInLimb) + 1],
                           pp.windowSize * (t % numWindowsInLimb), pp.windowSize)
  IN << t + 1,
        IF window = 0 THEN st[2]
        ELSE MixedAdd(st[2], FirstFivePrecomp(pp, t, window)) >>

RECURSIVE UnsignedLoop(_, _, _)
UnsignedLoop(pp, limbs, st) ==
  IF st[1] >= Limbs * (LimbBits \div pp.windowSize) THEN st
  ELSE IF SkipsLimb(limbs, st[1], 0, LimbBits \div pp.windowSize)
    THEN UnsignedLoop(pp, limbs,
                      << st[1] + (LimbBits \div pp.windowSize), st[2] >>)
  ELSE UnsignedLoop(pp, limbs, UnsignedWindow(pp, limbs, st))

UnsignedMul(pp, scalar, res) ==
  UnsignedLoop(pp, ToLimbs(FromMont(scalar)), << 0, res >>)[2]

\* ------------------------------------------------------------------ doWork
\* pointsPowers[i] of a cold point: numWindows points, the first the point
\* itself, each next one the previous times frQ = 1 << windowSize.  The
\* state keeps what New built the ladder from; LadderAt gives its entries.
NewLadder(point, windowSize, numWindows) ==
  [point |-> point, windowSize |-> windowSize, numWindows |-> numWindows]

\* A nil entry of the pointsPowers array.
NilLadder == [point |-> Identity, windowSize |-> 0, numWindows |-> 0]

LadderLen(ladder) == ladder.numWindows

\* The ladder loop of New: st = <<k, pointsPowers[i][k]>>, run up to k = j.
RECURSIVE LadderLoop(_, _, _)
LadderLoop(ladder, j, st) ==
  IF st[1] >= j THEN st[2]
  ELSE LadderLoop(ladder, j,
                  << st[1] + 1,
                     PointScalarMul(st[2], Pow2(ladder.windowSize)) >>)

\* A ladder whose entries are all the point itself.
LadderAtStuck(ladder, j) == ladder.point

LadderAt(ladder, j) == LadderLoop(ladder, j, << 0, ladder.point >>)

\* A doWork result: a partial sum, or a run-time panic.
Ok(pt) == [panic |-> FALSE, pt |-> pt]

Panic == [panic |-> TRUE, pt |-> NoPoint]

\* A loop body of doWork that compares with strict `>`.
DoWorkWindowStrict(windowSize, ladder, limbs, st) ==
  LET perLimb == LimbBits \div windowSize
      t == st.t
      windowValue ==
        WindowBits(limbs[(t \div perLimb) + 1], (t % perLimb) * windowSize,
                   windowSize) + st.carry
  IN IF windowValue = 0 THEN [st EXCEPT !.t = t + 1]
     ELSE IF t >= LadderLen(ladder) THEN [st EXCEPT !.panic = TRUE]
     ELSE IF windowValue > Pow2(windowSize - 1)
       THEN LET k == Pow2(windowSize) - windowValue
            IN [t |-> t + 1, carry |-> 1, panic |-> FALSE,
                b |-> [st.b EXCEPT ![k] = MixedAdd(@, Neg(LadderAt(ladder, t)))]]
       ELSE [t |-> t + 1, carry |-> 0, panic |-> FALSE,
             b |-> [st.b EXCEPT ![windowValue] = MixedAdd(@, LadderAt(ladder, t))]]

\* A loop body of doWork that skips the addition when the negated value
\* is 0, as PrecompPoint.ScalarMul does.
DoWorkWindowSkip(windowSize, ladder, limbs, st) ==
  LET perLimb == LimbBits \div windowSize
      t == st.t
      windowValue ==
        WindowBits(limbs[(t \div perLimb) + 1], (t % perLimb) * windowSize,
                   windowSize) + st.carry
  IN IF windowValue = 0 THEN [st EXCEPT !.t = t + 1]
     ELSE IF t >= LadderLen(ladder) THEN [st EXCEPT !.panic = TRUE]
     ELSE IF windowValue >= Pow2(windowSize - 1)
       THEN LET k == Pow2(windowSize) - windowValue
            IN [t |-> t + 1, carry |-> 1, panic |-> FALSE,
                b |-> IF k = 0 THEN st.b
                      ELSE [st.b EXCEPT ![k] = MixedAdd(@, Neg(LadderAt(ladder, t)))]]
       ELSE [t |-> t + 1, carry |-> 0, panic |-> FALSE,
             b |-> [st.b EXCEPT ![windowValue] = MixedAdd(@, LadderAt(ladder, t))]]

\* The window loop body of doWork for one scalar;
\* st = [t, carry, b (the buckets), panic].
DoWorkWindow(windowSize, ladder, limbs, st) ==
  LET perLimb == LimbBits \div windowSize
      t == st.t
      windowValue ==
        WindowBits(limbs[(t \div perLimb) + 1], (t % perLimb) * windowSize,
                   windowSize) + st.carry
  IN IF windowValue = 0 THEN [st EXCEPT !.t = t + 1]
     ELSE IF t >= LadderLen(ladder) THEN [st EXCEPT !.panic = TRUE]
     ELSE IF windowValue >= Pow2(windowSize - 1)
       THEN LET k == Pow2(windowSize) - windowValue
            IN [t |-> t + 1, carry |-> 1, panic |-> FALSE,
                b |-> [st.b EXCEPT ![k] = MixedAdd(@, Neg(LadderAt(ladder, t)))]]
       ELSE [t |-> t + 1, carry |-> 0, panic |-> FALSE,
             b |-> [st.b EXCEPT ![windowValue] = MixedAdd(@, LadderAt(ladder, t))]]

RECURSIVE DoWorkWindows(_, _, _, _)
DoWorkWindows(windowSize, ladder, limbs, st) ==
  IF st.panic \/ st.t >= Limbs * (LimbBits \div windowSize) THEN st
  ELSE IF SkipsLimb(limbs, st.t, st.carry, LimbBits \div windowSize)
    THEN DoWorkWindows(windowSize, ladder, limbs,
                       [st EXCEPT !.t = @ + (LimbBits \div windowSize)])
  ELSE DoWorkWindows(windowSize, ladder, limbs,
                     DoWorkWindow(windowSize, ladder, limbs, st))

\* points[i] of doWork: the ladder of cold index i, nil when New built none.
LadderOf(pointsPowers, i) ==
  IF i + 1 <= Len(pointsPowers) THEN pointsPowers[i + 1] ELSE NilLadder

\* The scalar loop of doWork over the cold indices i..hi-1;
\* st = [i, b, panic].
RECURSIVE DoWorkScalars(_, _, _, _, _, _)
DoWorkScalars(skipZero, windowSize, pointsPowers, scalars, hi, st) ==
  IF st.panic \/ st.i >= hi THEN st
  ELSE IF skipZero /\ IsZero(scalars[st.i + 1])
    THEN DoWorkScalars(skipZero, windowSize, pointsPowers, scalars, hi,
                       [st EXCEPT !.i = @ + 1])
  ELSE LET w == DoWorkWindows(windowSize, LadderOf(pointsPowers, st.i),
                              ToLimbs(FromMont(scalars[st.i + 1])),
                              [t |-> 0, carry |-> 0, b |-> st.b, panic |-> FALSE])
       IN DoWorkScalars(skipZero, windowSize, pointsPowers, scalars, hi,
                        [i |-> st.i + 1, b |-> w.b, panic |-> w.panic])

\* A reduction that adds the buckets up without their weights.
RECURSIVE BucketReduceFlat(_, _)
BucketReduceFlat(b, st) ==
  IF st[1] < 1 THEN st[3]
  ELSE BucketReduceFlat(b, << st[1] - 1, st[2], Add(st[3], b[st[1]]) >>)

\* The running-sum reduction, k from len(buckets)-1 down to 1;
\* st = <<k, tmp, result>>.
RECURSIVE BucketReduce(_, _)
BucketReduce(b, st) ==
  IF st[1] < 1 THEN st[3]
  ELSE LET tmp == IF b[st[1]] # Identity THEN Add(st[2], b[st[1]]) ELSE st[2]
       IN BucketReduce(b, << st[1] - 1, tmp, Add(st[3], tmp) >>)

\* doWork on the shard [lo, hi) of the cold scalars: what it sends.
DoWork(skipZero, windowSize, pointsPowers, scalars, lo, hi) ==
  IF Pow2(windowSize - 1) + 1 > bucketzLen THEN Panic
  ELSE LET half == Pow2(windowSize - 1)
           r == DoWorkScalars(skipZero, windowSize, pointsPowers, scalars, hi,
                              [i |-> lo, b |-> [k \in 0 .. half |-> Identity],
                               panic |-> FALSE])
       IN IF r.panic THEN Panic
          ELSE Ok(BucketReduce(r.b, << half, Identity, Identity >>))

\* ------------------------------------------------------------- msmPrecomp
\* A test that every index passes.
SetTestAlways(scalars, i) == TRUE

\* set.Test(uint(i)): the bitset holds the indices of the non-zero scalars.
SetTest(scalars, i) == ~IsZero(scalars[i + 1])

\* set.Count().
SetCount(scalars) == Cardinality({i \in 1 .. Len(scalars) : ~IsZero(scalars[i])})

\* One iteration of the hot loop for index i: pip256 skips the scalars that
\* are not in the set, bs5 uses its unsigned table; st = <<i, res>>.
PrecompStep(v, precompPoints, scalars, st) ==
  LET i == st[1]
  IN << i + 1,
        IF v = "pip256" /\ ~SetTest(scalars, i) THEN st[2]
        ELSE IF v = "bs5" THEN UnsignedMul(precompPoints[i + 1], scalars[i + 1], st[2])
        ELSE ScalarMul(precompPoints[i + 1], scalars[i + 1], st[2]) >>

\* for i := start; i < end; i++ { ... ScalarMul(scalars[i], &res) }
RECURSIVE PrecompRange(_, _, _, _, _)
PrecompRange(v, precompPoints, scalars, end, st) ==
  IF st[1] >= end THEN st[2]
  ELSE PrecompRange(v, precompPoints, scalars, end,
                    PrecompStep(v, precompPoints, scalars, st))

\* numBatches and batchSize of the parallel precomp path.
Min(a, b) == IF a < b THEN a ELSE b

NumBatches(count, cpus) ==
  Min((count + minScalarsPerRoutine - 1) \div minScalarsPerRoutine, cpus)

BatchSize(count, numBatches) == (count + numBatches - 1) \div numBatches

\* The inner loop of the launch loop: end and size advance until the batch
\* holds batchSize non-zero scalars or the scalars end; st = <<end, size>>.
RECURSIVE BatchEnd(_, _, _)
BatchEnd(scalars, batchSize, st) ==
  IF ~(st[2] < batchSize /\ st[1] < Len(scalars)) THEN st[1]
  ELSE BatchEnd(scalars, batchSize,
                << st[1] + 1, IF SetTest(scalars, st[1]) THEN st[2] + 1 ELSE st[2] >>)

\* The launch loop: the (start, end) pairs of the goroutines it starts,
\* in launch order; st = <<start, launched>>.
RECURSIVE Batches(_, _, _)
Batches(scalars, batchSize, st) ==
  IF st[1] >= Len(scalars) THEN st[2]
  ELSE LET end == BatchEnd(scalars, batchSize, << st[1], 0 >>)
       IN Batches(scalars, batchSize,
                  << end, Append(st[2], [lo |-> st[1], hi |-> end]) >>)

\* -------------------------------------------------------------- msmPipper
\* batches of msmPipper, and count of the bsPip MSM.
PipperBatches(len, cpus) ==
  Min((len + minWorkPerRoutine - 1) \div minWorkPerRoutine, cpus)

\* Shards that all run to the end of the scalars.
ShardToEnd(i, len, batches) == [lo |-> (i * len) \div batches, hi |-> len]

\* Shard i of len scalars split in `batches`.
Shard(i, len, batches) ==
  [lo |-> (i * len) \div batches, hi |-> ((i + 1) * len) \div batches]

\* scalars[precompNumPoints:]
ColdScalars(v, scalars) ==
  IF Len(scalars) <= precompNumPoints(v) THEN << >>
  ELSE SubSeq(scalars, precompNumPoints(v) + 1, Len(scalars))

\* scalars[:precompNumPoints] when there are more, else all of them.
HotScalars(v, scalars) ==
  IF Len(scalars) <= precompNumPoints(v) THEN scalars
  ELSE SubSeq(scalars, 1, precompNumPoints(v))

\* ------------------------------------------------------------------ inputs
\* The basis: deterministic, distinct, non-identity points (the tests derive
\* theirs from a fixed seed).
BasisPoint(i) == (7919 + 104729 * i + 31 * i * i) % GroupOrder

\* Standard values with a window on each boundary of the recoding:
\* 8, 128, 32768 are 2^(w-1) for w = 4, 8, 16; 248 and 65409 carry into a
\* window of all ones; 118708 is r-1.
ScalarVals == << 1, 8, 128, 248, 255, 32768, 65409, 65535, 118708 >>

NonZeroAt(i) == ToMont(ScalarVals[(i % Len(ScalarVals)) + 1])

\* A scalar vector of length k in Montgomery form.
Vec(k, pat) ==
  [i \in 1 .. k |->
     CASE pat = "zero" -> 0
       [] pat = "nz" -> NonZeroAt(i - 1)
       [] pat = "tail0" -> IF i = k THEN 0 ELSE NonZeroAt(i - 1)
       [] pat = "sparse" -> IF i % 2 = 0 THEN 0 ELSE NonZeroAt(i - 1)
       [] OTHER -> IF i % 3 = 2 THEN 0 ELSE NonZeroAt(i - 1)]

Patterns == {"zero", "nz", "tail0", "gap"}

\* Lengths of the scalar vectors: around the hot prefix of 5, the serial
\* threshold of 4 non-zero scalars, the batch sizes, the longest basis, and
\* one beyond the 256 limit.
VecLens(pat) ==
  CASE pat = "zero" -> {0, 1, 5, 9, 14, MaxPoints}
    [] pat = "nz" -> {1, 5, 6, 7, 9, 14, MaxPoints, 25, 257}
    [] pat = "tail0" -> {6, 7, 9, 14}
    [] OTHER -> {6, 9, 14, MaxPoints}

ScalarVectors == UNION {{Vec(k, pat) : k \in VecLens(pat)} : pat \in Patterns}

\* Basis lengths: none, below the hot prefix of 5, at it, above it, the
\* full 256 and one more.
BasisLens == {0, 4, 5, 8, MaxPoints, 256, 257}

\* Window widths: 4 and 8 are the accepted ones.
WindowInputs == {0, 3, 4, 8, 16, 257}

\* ------------------------------------------------------------------ state
VARIABLES
  variant,   \* which engine the behaviour runs
  numCPU,    \* runtime.NumCPU()
  mode,      \* the callers: "single", "conc" (concurrent MSM calls), "lin"
  proc,      \* "running", or "panicked" after a run-time panic
  newPc,     \* position of New
  newArgs,   \* [n, c]: len(points) and windowSize given to New
  eng,       \* the MSMFixedBasis under construction, then returned
  calls,     \* the MSM calls, by caller
  hist,      \* completed calls of the "lin" callers
  wk,        \* one run of a recoding consumer: a ScalarMul chain or a doWork
  tb         \* one run of NewPrecompPoint

vars ==
  << variant, numCPU, mode, proc, newPc, newArgs, eng, calls, hist, wk, tb >>

\* No consumer run and no table build under way.
IdleRun == [pc |-> "idle"]

IdleBuild == [pc |-> "idle", tasks |-> {}]

EmptyEngine ==
  [windowSize |-> 0, windowMask |-> 0, numWindows |-> 0,
   pointsPowers |-> << >>, precompPoints |-> << >>]

IdleCall ==
  [pc |-> "idle", scalars |-> << >>, workers |-> {}, ch |-> << >>, cap |-> 0,
   need |-> 0, acc |-> Identity, hotLen |-> 0, coldLen |-> 0,
   precompRes |-> Identity, pipperRes |-> Identity, mainWork |-> FALSE,
   outcome |-> "none", result |-> NoPoint]

Callers == 1 .. MaxCalls

\* Callers that call MSM in each mode.
ActiveCallers(m) == IF m = "conc" THEN Callers ELSE {1}

\* runtime.NumCPU() of the machine.  The vectors of the concurrent callers
\* split in at most two batches, so one and many CPUs cover their cases.
CPUsOf(m) == IF m = "conc" THEN {1, MaxCPU} ELSE 1 .. MaxCPU

InitCommon ==
  /\ variant \in Variants
  /\ numCPU \in CPUsOf(mode)
  /\ proc = "running"
  /\ newPc = "start"
  /\ newArgs = [n |-> 0, c |-> 0]
  /\ eng = EmptyEngine
  /\ calls = [c \in Callers |-> IdleCall]
  /\ hist = << >>
  /\ wk = IdleRun
  /\ tb = IdleBuild

Init == mode = "single" /\ InitCommon

InitConc == mode = "conc" /\ InitCommon

InitLin == mode = "lin" /\ InitCommon

\* --------------------------------------------------------------------- New
\* What the callers give New in each mode.
BasisLensOf(m) == IF m = "single" THEN BasisLens ELSE {8, MaxPoints, 256}

WindowsOf(m) == IF m = "single" THEN WindowInputs ELSE {4, 8}

\* New without its length check.
TooManyPointsUnchecked(n) == FALSE

\* The two checks of New.
TooManyPoints(n) == n > precompNumPoints(variant) + pipperMsmLength(variant)

WindowTooWide(c) == c > fieldSizeBits

\* (1 << windowSize) - 1 on a 64-bit int.
WindowMask(c) == IF c >= LimbBits THEN -1 ELSE Pow2(c) - 1

\* The width of the table of hot point i.
PrecompWidth(v, i) == IF v = "pip256" /\ i >= 5 THEN 8 ELSE 16

\* New up to numWindows := fieldSizeBits / windowSize.
NewCall(n, c) ==
  /\ proc = "running"
  /\ newPc = "start"
  /\ newArgs' = [n |-> n, c |-> c]
  /\ IF TooManyPoints(n) THEN newPc' = "errLen" /\ UNCHANGED proc
     ELSE IF WindowTooWide(c) THEN newPc' = "errWin" /\ UNCHANGED proc
     ELSE IF c = 0 THEN newPc' = "panic" /\ proc' = "panicked"
     ELSE newPc' = "ladders" /\ UNCHANGED proc
  /\ UNCHANGED << wk, tb, variant, numCPU, mode, eng, calls, hist >>

\* The ladder loop over points[precompNumPoints:].
NewLadders ==
  /\ proc = "running"
  /\ newPc = "ladders"
  /\ LET M == precompNumPoints(variant)
         n == newArgs.n
         c == newArgs.c
     IN IF n < M \/ n - M > pipperMsmLength(variant)
          THEN newPc' = "panic" /\ proc' = "panicked" /\ UNCHANGED eng
          ELSE /\ eng' = [eng EXCEPT !.pointsPowers =
                            [i \in 1 .. (n - M) |->
                               NewLadder(BasisPoint(M + i - 1), c,
                                         fieldSizeBits \div c)]]
               /\ newPc' = IF M = 0 THEN "return" ELSE "tables"
               /\ UNCHANGED proc
  /\ UNCHANGED << wk, tb, variant, numCPU, mode, newArgs, calls, hist >>

\* The table tasks and group.Wait().
NewTables ==
  /\ proc = "running"
  /\ newPc = "tables"
  /\ eng' = [eng EXCEPT !.precompPoints =
               [i \in 1 .. precompNumPoints(variant) |->
                  NewPrecompPoint(BasisPoint(i - 1), PrecompWidth(variant, i - 1))]]
  /\ newPc' = "return"
  /\ UNCHANGED << wk, tb, variant, numCPU, mode, proc, newArgs, calls, hist >>

\* return &MSMFixedBasis{...}, nil
NewReturn ==
  /\ proc = "running"
  /\ newPc = "return"
  /\ eng' = [eng EXCEPT !.windowSize = newArgs.c,
                        !.windowMask = WindowMask(newArgs.c),
                        !.numWindows = fieldSizeBits \div newArgs.c]
  /\ newPc' = "built"
  /\ UNCHANGED << wk, tb, variant, numCPU, mode, proc, newArgs, calls, hist >>

\* --------------------------------------------------------------------- MSM
\* The length check of MSM.
TooManyScalars(k) == k > precompNumPoints(variant) + pipperMsmLength(variant)

\* An MSM that never goes on to msmPipper.
UsesPipperNever(v, k) == FALSE

\* len(scalars) <= precompNumPoints fails: msmPipper runs on the rest.
UsesPipper(v, k) == k > precompNumPoints(v)

\* A reader that calls FromMont on the caller's elements themselves.
CallerScalarsInPlace(scalars, lo, hi) ==
  [i \in DOMAIN scalars |->
     IF lo < i /\ i <= hi THEN FromMont(scalars[i]) ELSE scalars[i]]

\* The caller's vector after a worker has read scalars[lo:hi]: every reader
\* takes its scalar by value (a range copy, or a by-value parameter) and
\* calls FromMont on the copy.
CallerScalars(scalars, lo, hi) == scalars

\* The call after msmPrecomp has started on the hot scalars: the serial path
\* has its result, the parallel path of pip256 has launched its goroutines.
PrecompStart(v, e, rec, cpus) ==
  LET hot == HotScalars(v, rec.scalars)
      count == SetCount(hot)
  IN IF v = "pip256" /\ count > minScalarsPerRoutine
       THEN LET numBatches == NumBatches(count, cpus)
                launched == Batches(hot, BatchSize(count, numBatches),
                                    << 0, << >> >>)
            IN [rec EXCEPT !.pc = "precomp", !.hotLen = Len(hot),
                           !.workers = {launched[i] : i \in DOMAIN launched},
                           !.ch = << >>, !.cap = numBatches,
                           !.need = numBatches, !.acc = Identity]
       ELSE [rec EXCEPT !.pc = "precomp", !.hotLen = Len(hot), !.need = 0,
                        !.acc = PrecompRange(v, e.precompPoints, hot, Len(hot),
                                             << 0, Identity >>),
                        !.scalars = CallerScalars(@, 0, Len(hot))]

\* The call after msmPipper (the whole MSM of bsPip) has launched its
\* goroutines on the cold scalars; len/batches panics when batches is 0.
PipperStart(rec, cold, cpus) ==
  LET batches == PipperBatches(Len(cold), cpus)
  IN IF batches = 0
       THEN [rec EXCEPT !.pc = "done", !.outcome = "panic"]
       ELSE [rec EXCEPT !.pc = "pipper", !.coldLen = Len(cold),
                        !.workers = {Shard(i, Len(cold), batches) :
                                       i \in 1 .. (batches - 1)},
                        !.ch = << >>, !.cap = batches, !.need = batches,
                        !.mainWork = TRUE]

\* A step of call c ends in rec; a panic ends the process.
Commit(c, rec) ==
  /\ calls' = [calls EXCEPT ![c] = rec]
  /\ proc' = IF rec.outcome = "panic" THEN "panicked" ELSE proc

\* MSM from its entry to the first point where it waits or returns.
MSMCall(c, scalars) ==
  /\ proc = "running"
  /\ newPc = "built"
  /\ c \in ActiveCallers(mode)
  /\ calls[c].pc = "idle"
  /\ LET rec == [IdleCall EXCEPT !.scalars = scalars]
     IN IF TooManyScalars(Len(scalars))
          THEN Commit(c, [rec EXCEPT !.pc = "done", !.outcome = "err"])
        ELSE IF variant = "bsPip"
          THEN Commit(c, PipperStart(rec, scalars, numCPU))
        ELSE Commit(c, PrecompStart(variant, eng, rec, numCPU))
  /\ UNCHANGED << wk, tb, variant, numCPU, mode, newPc, newArgs, eng, hist >>

\* When each step of a call can run: a send needs room in the channel, a
\* receive needs a value in it.
CanSend(c) ==
  /\ proc = "running"
  /\ calls[c].workers # {}
  /\ Len(calls[c].ch) < calls[c].cap

CanReceive(c) ==
  /\ proc = "running"
  /\ ~calls[c].mainWork
  /\ calls[c].need > 0
  /\ calls[c].ch # << >>

CanReturn(c) ==
  /\ proc = "running"
  /\ ~calls[c].mainWork
  /\ calls[c].need = 0

CanRunMain(c) ==
  /\ proc = "running"
  /\ calls[c].mainWork

\* A goroutine of the parallel precomp path runs its loop and sends.
PrecompWorker(c, w) ==
  /\ calls[c].pc \in {"precomp", "done"}
  /\ CanSend(c)
  /\ w \in calls[c].workers
  /\ LET rec == calls[c]
         hot == HotScalars(variant, rec.scalars)
         res == PrecompRange(variant, eng.precompPoints, hot, w.hi,
                             << w.lo, Identity >>)
     IN Commit(c, [rec EXCEPT !.workers = @ \ {w}, !.ch = Append(@, res),
                              !.scalars = CallerScalars(@, w.lo, w.hi)])
  /\ UNCHANGED << wk, tb, variant, numCPU, mode, newPc, newArgs, eng, hist >>

\* res := <-results; result.Add(&result, &res) of msmPrecomp.
PrecompRecv(c) ==
  /\ calls[c].pc = "precomp"
  /\ CanReceive(c)
  /\ Commit(c, [calls[c] EXCEPT !.acc = Add(@, Head(calls[c].ch)),
                                !.ch = Tail(@), !.need = @ - 1])
  /\ UNCHANGED << wk, tb, variant, numCPU, mode, newPc, newArgs, eng, hist >>

\* msmPrecomp returns: MSM returns its result, or goes on to msmPipper.
PrecompReturn(c) ==
  /\ calls[c].pc = "precomp"
  /\ CanReturn(c)
  /\ LET rec == [calls[c] EXCEPT !.precompRes = calls[c].acc]
     IN IF UsesPipper(variant, Len(rec.scalars))
          THEN Commit(c, PipperStart(rec, ColdScalars(variant, rec.scalars),
                                     numCPU))
          ELSE Commit(c, [rec EXCEPT !.pc = "done", !.outcome = "ok",
                                     !.result = rec.acc])
  /\ UNCHANGED << wk, tb, variant, numCPU, mode, newPc, newArgs, eng, hist >>

\* msmPipper's own doWork call on the first shard.
PipperMain(c) ==
  /\ calls[c].pc = "pipper"
  /\ CanRunMain(c)
  /\ LET rec == calls[c]
         cold == ColdScalars(variant, rec.scalars)
         first == Shard(0, Len(cold), rec.cap)
         res == DoWork(variant = "pip256", eng.windowSize, eng.pointsPowers,
                       cold, first.lo, first.hi)
     IN IF res.panic
          THEN Commit(c, [rec EXCEPT !.pc = "done", !.outcome = "panic"])
          ELSE Commit(c, [rec EXCEPT !.mainWork = FALSE,
                                     !.ch = Append(@, res.pt),
                                     !.scalars = CallerScalars(@, rec.hotLen + first.lo,
                                                              rec.hotLen + first.hi)])
  /\ UNCHANGED << wk, tb, variant, numCPU, mode, newPc, newArgs, eng, hist >>

\* go msm.doWork(...) on the shard w.
PipperWorker(c, w) ==
  /\ calls[c].pc = "pipper"
  /\ CanSend(c)
  /\ w \in calls[c].workers
  /\ LET rec == calls[c]
         res == DoWork(variant = "pip256", eng.windowSize, eng.pointsPowers,
                       ColdScalars(variant, rec.scalars), w.lo, w.hi)
     IN IF res.panic
          THEN Commit(c, [rec EXCEPT !.pc = "done", !.outcome = "panic"])
          ELSE Commit(c, [rec EXCEPT !.workers = @ \ {w},
                                     !.ch = Append(@, res.pt),
                                     !.scalars = CallerScalars(@, rec.hotLen + w.lo,
                                                              rec.hotLen + w.hi)])
  /\ UNCHANGED << wk, tb, variant, numCPU, mode, newPc, newArgs, eng, hist >>

\* result := <-results, then res := <-results; result.Add(&result, &res).
PipperRecv(c) ==
  /\ calls[c].pc = "pipper"
  /\ CanReceive(c)
  /\ LET rec == calls[c]
     IN Commit(c, [rec EXCEPT !.acc = IF rec.need = rec.cap THEN Head(rec.ch)
                                      ELSE Add(@, Head(rec.ch)),
                              !.ch = Tail(@), !.need = @ - 1])
  /\ UNCHANGED << wk, tb, variant, numCPU, mode, newPc, newArgs, eng, hist >>

\* msmPipper returns and MSM adds the two results (bsPip returns its own).
PipperReturn(c) ==
  /\ calls[c].pc = "pipper"
  /\ CanReturn(c)
  /\ LET rec == calls[c]
     IN Commit(c, [rec EXCEPT !.pc = "done", !.outcome = "ok",
                              !.pipperRes = rec.acc,
                              !.result = IF variant = "bsPip" THEN rec.acc
                                         ELSE Add(rec.precompRes, rec.acc)])
  /\ UNCHANGED << wk, tb, variant, numCPU, mode, newPc, newArgs, eng, hist >>

\* The caller takes the result; its next call starts afresh.
MSMReturn(c) ==
  /\ proc = "running"
  /\ calls[c].pc = "done"
  /\ calls' = [calls EXCEPT ![c] = IdleCall]
  /\ hist' = IF mode = "lin"
               THEN Append(hist, [scalars |-> calls[c].scalars,
                                  result |-> calls[c].result,
                                  outcome |-> calls[c].outcome])
               ELSE hist
  /\ UNCHANGED << wk, tb, variant, numCPU, mode, proc, newPc, newArgs, eng >>

\* ----------------------------------------------------------------- callers
\* Element-wise field addition of two vectors of one length.
VecAdd(a, b) == [i \in DOMAIN a |-> FrAdd(a[i], b[i])]

\* The concurrent callers' vectors, and those of the "lin" caller.
ConcVectors == {Vec(14, "sparse")}

LinVectors == {Vec(k, pat) : k \in {5, 7, 14}, pat \in {"nz", "tail0", "gap"}}

\* The vectors a caller may pass next: the "lin" caller calls with a, then
\* b of the same length, then a+b.
CallInputs(m, h) ==
  IF m = "single" THEN ScalarVectors
  ELSE IF m = "conc" THEN ConcVectors
  ELSE IF Len(h) = 0 THEN LinVectors
  ELSE IF Len(h) = 1 THEN {b \in LinVectors : Len(b) = Len(h[1].scalars)}
  ELSE IF Len(h) = 2 THEN {VecAdd(h[1].scalars, h[2].scalars)}
  ELSE {}

\* The steps of call c between its entry and its return.
CallStep(c) ==
  \/ \E w \in calls[c].workers : PrecompWorker(c, w)
  \/ PrecompRecv(c)
  \/ PrecompReturn(c)
  \/ PipperMain(c)
  \/ \E w \in calls[c].workers : PipperWorker(c, w)
  \/ PipperRecv(c)
  \/ PipperReturn(c)

Next ==
  \/ \E n \in BasisLensOf(mode), c \in WindowsOf(mode) : NewCall(n, c)
  \/ NewLadders
  \/ NewTables
  \/ NewReturn
  \/ \E c \in Callers :
       \/ /\ newPc = "built" /\ calls[c].pc = "idle"
          /\ \E scalars \in CallInputs(mode, hist) : MSMCall(c, scalars)
       \/ CallStep(c)
       \/ MSMReturn(c)

Spec == Init /\ [][Next]_vars

SpecConc == InitConc /\ [][Next]_vars

SpecLin == InitLin /\ [][Next]_vars

\* ------------------------------------------------------------- properties
\* The reference MSM of the tests (MultiExp with ScalarsMont): the sum of
\* s_i * P_i over the indices lo..hi-1, from the standard values of the
\* scalars; st = <<i, sum>>.
RECURSIVE RefRange(_, _, _)
RefRange(scalars, hi, st) ==
  IF st[1] >= hi THEN st[2]
  ELSE RefRange(scalars, hi,
                << st[1] + 1,
                   Add(st[2], PointScalarMul(BasisPoint(st[1]),
                                             FromMont(scalars[st[1] + 1]))) >>)

RefMSM(scalars) == RefRange(scalars, Len(scalars), << 0, Identity >>)

\* The window widths the engine is used with.
AcceptedWindows == {4, 8}

\* Call c has been given k <= N scalars on an engine of an accepted width.
InContract(c) ==
  /\ calls[c].pc # "idle"
  /\ newArgs.c \in AcceptedWindows
  /\ Len(calls[c].scalars) <= newArgs.n

AllZero(scalars) == \A i \in DOMAIN scalars : IsZero(scalars[i])

\* C1: on an engine built with c in {4,8}, an MSM call with k <= N scalars
\* that has ended returned the reference sum of s_i * P_i, whatever the
\* order in which its workers ran.
MSMEqualsReference ==
  \A c \in Callers :
    (InContract(c) /\ calls[c].pc = "done" /\ calls[c].outcome = "ok")
      => calls[c].result = RefMSM(calls[c].scalars)

\* C2: an MSM call in progress can always take a step: it never waits for a
\* partial sum that no worker will send.
MSMNeverWaitsForever ==
  \A c \in Callers :
    (InContract(c) /\ calls[c].pc \in {"precomp", "pipper"})
      => (CanSend(c) \/ CanReceive(c) \/ CanReturn(c) \/ CanRunMain(c))

\* C3: neither New nor MSM ends in a run-time panic, whatever the basis
\* length, the window width and the scalar vector.
NeverPanics == proc = "running"

\* C4: an MSM call with more scalars than the engine has basis points ends
\* with the TooManyScalars error and no point.
TooManyScalarsRejected ==
  \A c \in Callers :
    (calls[c].pc # "idle" /\ newArgs.c \in AcceptedWindows
     /\ Len(calls[c].scalars) > newArgs.n)
      => (calls[c].pc = "done" /\ calls[c].outcome = "err"
          /\ calls[c].result = NoPoint)

\* C5: New given a window width outside the accepted set ends with the
\* InvalidWindow error and builds no engine.
InvalidWindowRejected ==
  (newPc # "start" /\ ~TooManyPoints(newArgs.n)
   /\ newArgs.c \notin AcceptedWindows)
    => (newPc = "errWin" /\ eng = EmptyEngine)

\* C6: New given more than 256 points has ended with the TooManyPoints
\* error, with no ladder and no table built and no engine returned.
TooManyPointsRejected ==
  (newPc # "start" /\ newArgs.n > maxMsmLength)
    => (newPc = "errLen" /\ eng = EmptyEngine /\ proc = "running")

TooManyPointsSeen == newPc = "errLen" /\ newArgs.n > maxMsmLength

\* C7: for one engine of an accepted width and vectors a, b of one length
\* k <= N, the results of MSM(a), MSM(b) and MSM(a+b) satisfy
\* MSM(a) + MSM(b) = MSM(a+b).
MSMIsLinear ==
  (/\ Len(hist) = 3
   /\ newArgs.c \in AcceptedWindows
   /\ Len(hist[1].scalars) <= newArgs.n
   /\ \A i \in 1 .. 3 : hist[i].outcome = "ok")
    => Add(hist[1].result, hist[2].result) = hist[3].result

\* C8: an MSM call with k <= N scalars that are all 0 ends by returning the
\* identity point.
ZeroVectorGivesIdentity ==
  \A c \in Callers :
    (InContract(c) /\ AllZero(calls[c].scalars) /\ calls[c].pc = "done")
      => (calls[c].outcome = "ok" /\ calls[c].result = Identity)

\* C9: on an engine with a hot prefix of M points, a call that passed the
\* length check runs msmPrecomp alone when k <= M and never reaches
\* msmPipper; when k > M it runs msmPrecomp on scalars[0..M] and msmPipper
\* on scalars[M..k] and returns the sum of their results, each of which is
\* the reference sum over its part.
DispatchByLength ==
  \A c \in Callers :
    LET rec == calls[c]
        k == Len(rec.scalars)
        M == precompNumPoints(variant)
        returned == rec.pc = "done" /\ rec.outcome = "ok"
    IN (rec.pc # "idle" /\ M > 0 /\ ~TooManyScalars(k))
         => IF k <= M
              THEN /\ rec.pc # "pipper"
                   /\ rec.hotLen = k
                   /\ rec.coldLen = 0
                   /\ returned => rec.result = rec.precompRes
              ELSE /\ rec.hotLen = M
                   /\ rec.pc = "pipper" => rec.coldLen = k - M
                   /\ returned =>
                        /\ rec.coldLen = k - M
                        /\ rec.result = Add(rec.precompRes, rec.pipperRes)
                        /\ InContract(c) =>
                             /\ rec.precompRes =
                                  RefRange(rec.scalars, M, << 0, Identity >>)
                             /\ rec.pipperRes =
                                  RefRange(rec.scalars, k, << M, Identity >>)

MixedPathReturned ==
  \E c \in Callers :
    /\ calls[c].pc = "done" /\ calls[c].outcome = "ok"
    /\ InContract(c)
    /\ calls[c].hotLen = precompNumPoints(variant)
    /\ calls[c].coldLen > minWorkPerRoutine
    /\ calls[c].pipperRes # Identity
    /\ calls[c].precompRes # Identity

\* C10: no step of an MSM call, alone or beside other MSM calls on the same
\* engine, changes the engine's tables and ladders or the scalar vector of
\* a caller.
MSMFrame ==
  [][/\ newPc = "built" => eng' = eng
     /\ \A c \in Callers :
          (calls[c].pc # "idle" /\ calls'[c].pc # "idle")
            => calls'[c].scalars = calls[c].scalars]_vars

ConcurrentWorkersSent ==
  \E c, d \in Callers :
    /\ c # d
    /\ \A e \in {c, d} :
         /\ calls[e].pc \in {"precomp", "pipper"}
         /\ calls[e].ch # << >>
         /\ \E i \in DOMAIN calls[e].scalars : ~IsZero(calls[e].scalars[i])

\* The partial sums a call's workers compute, added in launch order: the
\* goroutines of the parallel precomp path or its serial loop, then the
\* shards of msmPipper; st = <<i, sum>>.
RECURSIVE SumBatches(_, _, _, _, _)
SumBatches(v, precompPoints, hot, launched, st) ==
  IF st[1] > Len(launched) THEN st[2]
  ELSE SumBatches(v, precompPoints, hot, launched,
                  << st[1] + 1,
                     Add(st[2], PrecompRange(v, precompPoints, hot,
                                             launched[st[1]].hi,
                                             << launched[st[1]].lo, Identity >>)) >>)

RECURSIVE SumShards(_, _, _, _, _)
SumShards(v, e, cold, batches, st) ==
  IF st[1] >= batches THEN st[2]
  ELSE LET sh == Shard(st[1], Len(cold), batches)
       IN SumShards(v, e, cold, batches,
                    << st[1] + 1,
                       Add(st[2], DoWork(v = "pip256", e.windowSize,
                                         e.pointsPowers, cold, sh.lo, sh.hi).pt) >>)

SumOfPartials(v, e, scalars, cpus) ==
  LET hot == HotScalars(v, scalars)
      cold == ColdScalars(v, scalars)
      count == SetCount(hot)
      numBatches == NumBatches(count, cpus)
      pre == IF v = "pip256" /\ count > minScalarsPerRoutine
               THEN SumBatches(v, e.precompPoints, hot,
                               Batches(hot, BatchSize(count, numBatches),
                                       << 0, << >> >>),
                               << 1, Identity >>)
             ELSE IF v = "bsPip" THEN Identity
             ELSE PrecompRange(v, e.precompPoints, hot, Len(hot),
                               << 0, Identity >>)
  IN IF cold = << >> THEN pre
     ELSE Add(pre, SumShards(v, e, cold, PipperBatches(Len(cold), cpus),
                             << 0, Identity >>))

\* C11: the point an MSM call returns is the sum of the partial sums of all
\* its workers, whatever the order in which they ran and sent.
ArrivalOrderIrrelevant ==
  \A c \in Callers :
    (InContract(c) /\ calls[c].pc = "done" /\ calls[c].outcome = "ok")
      => calls[c].result = SumOfPartials(variant, eng, calls[c].scalars, numCPU)

\* The goroutines the parallel precomp path of call c has launched: those
\* still to send, those whose sum is in the channel, those received.
Launched(c) ==
  Cardinality(calls[c].workers) + Len(calls[c].ch)
    + (calls[c].cap - calls[c].need)

\* C12: in the parallel precomp path the number of goroutines launched is
\* numBatches, the number of partial sums the receive loop takes: when
\* msmPrecomp returns every goroutine has sent and every sum was received.
LaunchedEqualsReceived ==
  \A c \in Callers :
    (InContract(c) /\ calls[c].pc = "precomp" /\ calls[c].cap > 0)
      => /\ Launched(c) = calls[c].cap
         /\ calls[c].cap = NumBatches(SetCount(calls[c].scalars), numCPU)

\* ------------------------------------------------ recoding consumer runs
\* One run of a consumer of the signed-digit recoding, window by window:
\* PrecompPoint.ScalarMul calls chained on one accumulator, or doWork on one
\* shard.  The scalars of a run are limb contents as FromMont leaves them,
\* all four limbs in use.

\* Scalars of one run.
MaxChain == 2

\* The 16 most significant bits of the modulus of fr (0x1cfb): limbs whose
\* top chunk is below it hold a scalar of [0, r).
frTopChunk == 7419

\* Limb contents, least significant chunk first.  Their windows hold the
\* value 2^(w-1) with no carry (8, 128, 32768), the value 2^(w-1) - 1 after
\* a carry, and runs of all-ones windows that give the raw value 2^w.  The
\* last two are not below r: the window loops read the limbs whatever they
\* hold.
RunScalars ==
  << << << 1, 0, 0, 0 >>, << 0, 0, 0, 0 >>, << 0, 0, 0, 0 >>, << 0, 0, 0, 0 >> >>,
     << << 128, 32768, 8, 2048 >>, << 32896, 34952, 0, 32768 >>,
        << 0, 0, 128, 0 >>, << 8, 0, 0, 128 >> >>,
     << << 65535, 65535, 65535, 65535 >>, << 65535, 65535, 65535, 65535 >>,
        << 65535, 65535, 65535, 65535 >>, << 65535, 65535, 65535, 7418 >> >>,
     << << 0, 0, 0, 0 >>, << 0, 0, 0, 0 >>, << 0, 0, 0, 0 >>, << 0, 0, 0, 0 >> >>,
     << << 65408, 255, 32769, 32767 >>, << 65535, 65535, 0, 1 >>,
        << 32640, 65407, 0, 65535 >>, << 65535, 0, 34952, 7418 >> >>,
     ToLimbs(65409),
     << << 32767, 32767, 30583, 65535 >>, << 32767, 0, 0, 0 >>,
        << 0, 65535, 65535, 30719 >>, << 61439, 255, 65280, 127 >> >>,
     ToLimbs(118708),
     << << 65535, 65535, 65535, 65535 >>, << 65535, 65535, 65535, 65535 >>,
        << 65535, 65535, 65535, 65535 >>, << 65535, 65535, 65535, 65535 >> >>,
     << << 32768, 32896, 8, 65535 >>, << 65535, 65535, 65535, 65535 >>,
        << 0, 128, 34952, 32767 >>, << 65535, 32768, 65535, 32768 >> >> >>

\* The chain of len scalars that starts at entry first of RunScalars.
Chain(first, len) ==
  [j \in 1 .. len |-> RunScalars[((first + j - 2) % Len(RunScalars)) + 1]]

\* P_j of a run.
ChainPoints(len) == [j \in 1 .. len |-> BasisPoint(j - 1)]

\* What one window of PrecompPoint.ScalarMul makes of the raw value
\* windowValue (window bits plus carry): the signed digit whose table entry
\* it adds, and the carry it leaves.
ScalarMulRecode(windowSize, windowValue) ==
  IF windowValue = 0 THEN [digit |-> 0, carry |-> 0]
  ELSE IF windowValue > Pow2(windowSize - 1)
    THEN [digit |-> windowValue - Pow2(windowSize), carry |-> 1]
  ELSE [digit |-> windowValue, carry |-> 0]

\* The same for one window of doWork.
DoWorkRecode(windowSize, windowValue) ==
  IF windowValue = 0 THEN [digit |-> 0, carry |-> 0]
  ELSE IF windowValue >= Pow2(windowSize - 1)
    THEN [digit |-> windowValue - Pow2(windowSize), carry |-> 1]
  ELSE [digit |-> windowValue, carry |-> 0]

\* The buckets a window step wrote to: those whose content changed.  A
\* mixed addition of a ladder or table point, never the identity, changes
\* the point it adds into.
Written(before, after) == {k \in DOMAIN after : after[k] # before[k]}

\* sum_{k = 1 .. len(buckets)-1} k * B[k]; st = <<k, sum>>.
RECURSIVE WeightedSum(_, _)
WeightedSum(b, st) ==
  IF st[1] < 1 THEN st[2]
  ELSE WeightedSum(b, << st[1] - 1, Add(st[2], MulMod(b[st[1]], st[1])) >>)

BucketValue(b, windowSize) ==
  WeightedSum(b, << Pow2(windowSize - 1), Identity >>)

NoWindow ==
  [t |-> -1, raw |-> 0, carryIn |-> 0, digit |-> 0, carry |-> 0,
   written |-> {}, before |-> Identity, after |-> Identity]

\* The windows of one scalar: 256/w.
RunWindows(w) == Limbs * (LimbBits \div w)

\* The raw value of window t of limbs with the carry coming in.
RawValue(limbs, w, t, carry) ==
  WindowBits(limbs[(t \div (LimbBits \div w)) + 1],
             (t % (LimbBits \div w)) * w, w) + carry

\* ScalarMul is called with the first scalar of the chain on accumulator res.
ScalarMulStart(w, first, len, res) ==
  /\ wk.pc = "idle"
  /\ wk' = [pc |-> "ScalarMul", windowSize |-> w, points |-> ChainPoints(len),
            scalars |-> Chain(first, len), i |-> 1, t |-> 0, carry |-> 0,
            res0 |-> res, entry |-> res, res |-> res, b |-> << >>,
            digits |-> << >>, adds |-> 0, last |-> NoWindow,
            result |-> NoPoint]
  /\ UNCHANGED << tb, variant, numCPU, mode, proc, newPc, newArgs, eng,
                  calls, hist >>

\* One iteration of the window loop of ScalarMul.
ScalarMulStep ==
  /\ wk.pc = "ScalarMul"
  /\ wk.t < RunWindows(wk.windowSize)
  /\ LET pp == NewPrecompPoint(wk.points[wk.i], wk.windowSize)
         limbs == wk.scalars[wk.i]
         raw == RawValue(limbs, wk.windowSize, wk.t, wk.carry)
         st == ScalarMulWindow(pp, limbs, << wk.t, wk.carry, wk.res >>)
         rec == ScalarMulRecode(wk.windowSize, raw)
     IN wk' = [wk EXCEPT !.t = st[1], !.carry = st[2], !.res = st[3],
                         !.digits = Append(@, rec.digit),
                         !.adds = @ + Cardinality(Written(<< wk.res >>,
                                                          << st[3] >>)),
                         !.last = [t |-> wk.t, raw |-> raw,
                                   carryIn |-> wk.carry, digit |-> rec.digit,
                                   carry |-> rec.carry,
                                   written |-> Written(<< wk.res >>, << st[3] >>),
                                   before |-> wk.res, after |-> st[3]]]
  /\ UNCHANGED << tb, variant, numCPU, mode, proc, newPc, newArgs, eng,
                  calls, hist >>

\* ScalarMul returns; the caller calls it with the next scalar and point on
\* the same accumulator, or is done.
ScalarMulReturn ==
  /\ wk.pc = "ScalarMul"
  /\ wk.t = RunWindows(wk.windowSize)
  /\ IF wk.i < Len(wk.scalars)
       THEN wk' = [wk EXCEPT !.i = @ + 1, !.t = 0, !.carry = 0,
                             !.entry = wk.res, !.digits = << >>, !.adds = 0,
                             !.last = NoWindow]
     ELSE wk' = [wk EXCEPT !.pc = "returned", !.result = wk.res]
  /\ UNCHANGED << tb, variant, numCPU, mode, proc, newPc, newArgs, eng,
                  calls, hist >>

\* doWork starts on a shard: the buckets are set to the identity.
DoWorkStart(c, first, len) ==
  /\ wk.pc = "idle"
  /\ wk' = [pc |-> "doWork", windowSize |-> c, points |-> ChainPoints(len),
            scalars |-> Chain(first, len), i |-> 1, t |-> 0, carry |-> 0,
            res0 |-> Identity, entry |-> Identity, res |-> Identity,
            b |-> [k \in 0 .. Pow2(c - 1) |-> Identity],
            digits |-> << >>, adds |-> 0, last |-> NoWindow,
            result |-> NoPoint]
  /\ UNCHANGED << tb, variant, numCPU, mode, proc, newPc, newArgs, eng,
                  calls, hist >>

\* One iteration of the window loop of doWork, on the ladder New builds for
\* the point: 256/c powers.
DoWorkStep ==
  /\ wk.pc = "doWork"
  /\ wk.i <= Len(wk.scalars)
  /\ wk.t < RunWindows(wk.windowSize)
  /\ LET c == wk.windowSize
         ladder == NewLadder(wk.points[wk.i], c, fieldSizeBits \div c)
         limbs == wk.scalars[wk.i]
         raw == RawValue(limbs, c, wk.t, wk.carry)
         st == DoWorkWindow(c, ladder, limbs,
                            [t |-> wk.t, carry |-> wk.carry, b |-> wk.b,
                             panic |-> FALSE])
         rec == DoWorkRecode(c, raw)
     IN wk' = [wk EXCEPT !.t = st.t, !.carry = st.carry, !.b = st.b,
                         !.digits = Append(@, rec.digit),
                         !.adds = @ + Cardinality(Written(wk.b, st.b)),
                         !.last = [t |-> wk.t, raw |-> raw,
                                   carryIn |-> wk.carry, digit |-> rec.digit,
                                   carry |-> rec.carry,
                                   written |-> Written(wk.b, st.b),
                                   before |-> BucketValue(wk.b, c),
                                   after |-> BucketValue(st.b, c)]]
  /\ UNCHANGED << tb, variant, numCPU, mode, proc, newPc, newArgs, eng,
                  calls, hist >>

\* The scalar loop of doWork moves to the next scalar: carry := 0.
DoWorkNextScalar ==
  /\ wk.pc = "doWork"
  /\ wk.i < Len(wk.scalars)
  /\ wk.t = RunWindows(wk.windowSize)
  /\ wk' = [wk EXCEPT !.i = @ + 1, !.t = 0, !.carry = 0, !.digits = << >>,
                      !.adds = 0, !.last = NoWindow]
  /\ UNCHANGED << tb, variant, numCPU, mode, proc, newPc, newArgs, eng,
                  calls, hist >>

\* Bucket contents a reduction may meet; the points are multiples of P_0.
BucketPatterns == {"identity", "same", "ramp", "holes", "top", "zeroth"}

BucketsOf(pat, c) ==
  [k \in 0 .. Pow2(c - 1) |->
     IF pat = "identity" THEN Identity
     ELSE IF pat = "same" THEN BasisPoint(0)
     ELSE IF pat = "ramp" THEN MulMod(BasisPoint(0), k + 3)
     ELSE IF pat = "holes"
       THEN (IF k % 3 = 1 THEN Identity ELSE MulMod(BasisPoint(1), 2 * k + 1))
     ELSE IF pat = "top"
       THEN (IF k = Pow2(c - 1) THEN BasisPoint(2) ELSE Identity)
     ELSE (IF k = 0 THEN BasisPoint(3) ELSE Identity)]

\* doWork has finished its scalar loop with the buckets of pattern pat.
DoWorkBuckets(c, pat) ==
  /\ wk.pc = "idle"
  /\ wk' = [pc |-> "doWork", windowSize |-> c, points |-> << >>,
            scalars |-> << >>, i |-> 1, t |-> 0, carry |-> 0,
            res0 |-> Identity, entry |-> Identity, res |-> Identity,
            b |-> BucketsOf(pat, c), digits |-> << >>, adds |-> 0,
            last |-> NoWindow, result |-> NoPoint]
  /\ UNCHANGED << tb, variant, numCPU, mode, proc, newPc, newArgs, eng,
                  calls, hist >>

\* The scalar loop is over: doWork reduces the buckets and sends the sum.
DoWorkReduce ==
  /\ wk.pc = "doWork"
  /\ \/ wk.i > Len(wk.scalars)
     \/ wk.i = Len(wk.scalars) /\ wk.t = RunWindows(wk.windowSize)
  /\ wk' = [wk EXCEPT !.pc = "sent",
                      !.result = BucketReduce(wk.b, << Pow2(wk.windowSize - 1),
                                                       Identity, Identity >>)]
  /\ UNCHANGED << tb, variant, numCPU, mode, proc, newPc, newArgs, eng,
                  calls, hist >>

\* Window widths the engines build tables with (precompWindowSize = 16; 8 for
\* the points after the fifth in part_002) and accept for the Pippenger
\* workers.
TableWidths == {8, 16}

BucketWidths == {4, 8}

InitRun ==
  /\ mode = "run"
  /\ variant = "pip5"
  /\ numCPU = 1
  /\ proc = "running"
  /\ newPc = "start"
  /\ newArgs = [n |-> 0, c |-> 0]
  /\ eng = EmptyEngine
  /\ calls = [c \in Callers |-> IdleCall]
  /\ hist = << >>
  /\ wk = IdleRun
  /\ tb = IdleBuild

NextRun ==
  \/ \E w \in TableWidths, first \in 1 .. Len(RunScalars), len \in 1 .. MaxChain,
        res \in {Identity, BasisPoint(7)} : ScalarMulStart(w, first, len, res)
  \/ ScalarMulStep
  \/ ScalarMulReturn
  \/ \E c \in BucketWidths, first \in 1 .. Len(RunScalars), len \in 1 .. MaxChain :
       DoWorkStart(c, first, len)
  \/ DoWorkStep
  \/ DoWorkNextScalar
  \/ \E c \in BucketWidths, pat \in BucketPatterns : DoWorkBuckets(c, pat)
  \/ DoWorkReduce

SpecRun == InitRun /\ [][NextRun]_vars

\* ------------------------------------------------- recoding properties
\* The limbs hold a scalar of [0, r).
Reduced(limbs) == limbs[Limbs][LimbBits \div ChunkBits] < frTopChunk

\* The scalar a consumer run is working on.
RunScalar == wk.scalars[wk.i]

\* A consumer run stands after the last window of a scalar.
ScalarConsumed ==
  /\ wk.pc \in {"ScalarMul", "doWork"}
  /\ wk.scalars # << >>
  /\ wk.t = RunWindows(wk.windowSize)

\* The borrow the signed digits below place j pass into it: -1 when the
\* nearest non-zero digit below is negative.
BorrowInto(digits, j) ==
  IF \E i \in 1 .. j - 1 :
       digits[i] < 0 /\ \A m \in i + 1 .. j - 1 : digits[m] = 0
    THEN -1 ELSE 0

\* sum_j digits[j] * (2^w)^(j-1) is the integer in limbs: propagating the
\* borrows of the negative digits gives back every window of the limbs, and
\* no borrow is left above the top digit.
DigitsGive(limbs, w, digits) ==
  /\ \A j \in 1 .. Len(digits) :
       (digits[j] + BorrowInto(digits, j) + Pow2(w)) % Pow2(w)
         = RawValue(limbs, w, j - 1, 0)
  /\ BorrowInto(digits, Len(digits) + 1) = 0

\* (2^w)^t times point.
WindowPower(point, w, t) == MulMod(point, ModPow(Pow2(w) % GroupOrder, t))

\* d * point for a signed digit d.
DigitTimes(point, d) ==
  IF d < 0 THEN Neg(MulMod(point, -d)) ELSE MulMod(point, d)

\* The window a run has just consumed changed the accumulated value by the
\* digit recorded for it, and left the carry recorded for it.
LastWindowApplied ==
  wk.last.t >= 0 =>
    /\ wk.carry = wk.last.carry
    /\ wk.last.after
         = Add(wk.last.before,
               DigitTimes(WindowPower(wk.points[wk.i], wk.windowSize, wk.last.t),
                          wk.last.digit))

\* C13: for a scalar of [0, r) and the widths in use, the signed digits a
\* consumer applies, taken in increasing window order, sum to the scalar
\* (sum_j d_j * (2^w)^j = s), and the carry after the top window is 0.
RecodingReconstructs ==
  /\ wk.pc \in {"ScalarMul", "doWork"} => LastWindowApplied
  /\ (ScalarConsumed /\ Reduced(RunScalar))
       => /\ Len(wk.digits) = fieldSizeBits \div wk.windowSize
          /\ DigitsGive(RunScalar, wk.windowSize, wk.digits)
          /\ wk.carry = 0

\* A scalar with bits in its top limb has been recoded with negative digits
\* and with a carry across a limb boundary.
RecodedAcrossLimbs ==
  /\ ScalarConsumed
  /\ ~LimbIsZero(RunScalar[Limbs])
  /\ \E j \in 1 .. Len(wk.digits) : wk.digits[j] < 0
  /\ \E l \in 1 .. Limbs - 1 :
       LET top == l * (LimbBits \div wk.windowSize)
       IN wk.digits[top] < 0 /\ wk.digits[top + 1] # 0

\* A run has just consumed a window whose raw value was v.
ConsumedRaw(v) ==
  /\ wk.pc \in {"ScalarMul", "doWork"}
  /\ wk.last.t >= 0
  /\ wk.last.raw = v

\* Half the window range, 2^(w-1), and the whole of it, 2^w, for the run.
HalfWindow == Pow2(wk.windowSize - 1)

FullWindow == Pow2(wk.windowSize)

MaxTableWidth == 8

\* The widths the engines pass to NewPrecompPoint, as far as written out.
BuildWidths == {w \in {8, 16} : w <= MaxTableWidth}

\* A projective point of the modelled group: the element x / z, z # 0.  An
\* addition returns a representative scaled by the factors its formula
\* multiplies in.
FromAffine(pt) == [x |-> pt, z |-> 1]

ProjAdd(p, q) ==
  [x |-> MulMod(2, Add(MulMod(p.x, q.z), MulMod(q.x, p.z))),
   z |-> MulMod(2, MulMod(p.z, q.z))]

\* PointAffine.FromProj: divides by z.
FromProj(p) == MulMod(p.x, ModPow(p.z, GroupOrder - 2))

\* The fill loop of precomp.go on affine points; st = <<j, curr, window>>.
RECURSIVE FillAffine(_, _, _)
FillAffine(base, len, st) ==
  IF st[1] >= len THEN st[3]
  ELSE FillAffine(base, len,
                  << st[1] + 1, Add(st[2], base), Append(st[3], st[2]) >>)

\* The fill loop of part_001 on projective points.
RECURSIVE FillProj(_, _, _)
FillProj(base, len, st) ==
  IF st[1] >= len THEN st[3]
  ELSE FillProj(base, len,
                << st[1] + 1, ProjAdd(st[2], base), Append(st[3], st[2]) >>)

\* A task whose window starts at twice the base.
TaskWindowShifted(build, base, len) ==
  FillAffine(base, len, << 0, Add(base, base), << >> >>)

\* What the task of one window stores in res.windows[i]: the affine fill,
\* or the projective fill converted entry by entry.
TaskWindow(build, base, len) ==
  IF build = "affine" THEN FillAffine(base, len, << 0, base, << >> >>)
  ELSE LET w == FillProj(FromAffine(base), len,
                         << 0, FromAffine(base), << >> >>)
       IN [j \in 1 .. len |-> FromProj(w[j])]

\* NewPrecompPoint(point, windowSize) is entered: res.windows has 256/w
\* entries, all nil.
TableStart(point, windowSize, build) ==
  /\ tb.pc = "idle"
  /\ tb' = [pc |-> "building", build |-> build, windowSize |-> windowSize,
            given |-> point, point |-> point, i |-> 0, tasks |-> {},
            overtaken |-> FALSE,
            windows |-> [i \in 0 .. (256 \div windowSize) - 1 |-> << >>]]
  /\ UNCHANGED << wk, variant, numCPU, mode, proc, newPc, newArgs, eng,
                  calls, hist >>

\* One iteration of the builder's loop: group.Go of the task of window i,
\* which captures base := point, then point.ScalarMul(&point, &specialWindow).
TableGo ==
  /\ tb.pc = "building"
  /\ tb.i < 256 \div tb.windowSize
  /\ Cardinality(tb.tasks) < numCPU
  /\ tb' = [tb EXCEPT !.tasks = @ \cup {[i |-> tb.i, base |-> tb.point]},
                      !.point = PointScalarMul(@, Pow2(tb.windowSize)),
                      !.i = @ + 1]
  /\ UNCHANGED << wk, variant, numCPU, mode, proc, newPc, newArgs, eng,
                  calls, hist >>

\* A task runs: it allocates and fills its window.
TableTask(task) ==
  /\ tb.pc = "building"
  /\ task \in tb.tasks
  /\ tb' = [tb EXCEPT !.tasks = @ \ {task},
                      !.overtaken = @ \/ tb.i > task.i + 1,
                      !.windows[task.i] =
                         TaskWindow(tb.build, task.base,
                                    Pow2(tb.windowSize - 1))]
  /\ UNCHANGED << wk, variant, numCPU, mode, proc, newPc, newArgs, eng,
                  calls, hist >>

\* A return that does not wait for the tasks.
TableWaitNoBarrier ==
  /\ tb.pc = "building"
  /\ tb.i = 256 \div tb.windowSize
  /\ tb' = [tb EXCEPT !.pc = "returned"]
  /\ UNCHANGED << wk, variant, numCPU, mode, proc, newPc, newArgs, eng,
                  calls, hist >>

\* group.Wait() returns once no task is left; NewPrecompPoint returns res.
TableWait ==
  /\ tb.pc = "building"
  /\ tb.i = 256 \div tb.windowSize
  /\ tb.tasks = {}
  /\ tb' = [tb EXCEPT !.pc = "returned"]
  /\ UNCHANGED << wk, variant, numCPU, mode, proc, newPc, newArgs, eng,
                  calls, hist >>

\* New's own group.Wait() returns once the goroutine that called
\* NewPrecompPoint has stored the table; New returns the engine, whose
\* tables MSM may read from then on.
NewWait ==
  /\ tb.pc = "returned"
  /\ tb' = [tb EXCEPT !.pc = "engine"]
  /\ UNCHANGED << wk, variant, numCPU, mode, proc, newPc, newArgs, eng,
                  calls, hist >>

InitTable ==
  /\ mode = "table"
  /\ variant = "pip5"
  /\ numCPU \in {1, 2}
  /\ proc = "running"
  /\ newPc = "start"
  /\ newArgs = [n |-> 0, c |-> 0]
  /\ eng = EmptyEngine
  /\ calls = [c \in Callers |-> IdleCall]
  /\ hist = << >>
  /\ wk = IdleRun
  /\ tb = IdleBuild

NextTable ==
  \/ \E point \in {BasisPoint(0), BasisPoint(5)}, w \in BuildWidths,
        build \in {"affine", "proj"} : TableStart(point, w, build)
  \/ TableGo
  \/ \E task \in tb.tasks : TableTask(task)
  \/ TableWait
  \/ NewWait

SpecTable == InitTable /\ [][NextTable]_vars

\* C16: the table NewPrecompPoint(P, w) returns holds 256/w windows of
\* 2^(w-1) points with windows[j][k-1] = (k * (2^w)^j) * P, the same for the
\* affine build and for the projective build converted to affine; it is the
\* table the engines' ScalarMul reads.
TableHoldsMultiples ==
  tb.pc = "returned" =>
    /\ DOMAIN tb.windows = 0 .. (256 \div tb.windowSize) - 1
    /\ \A j \in DOMAIN tb.windows :
         /\ Len(tb.windows[j]) = Pow2(tb.windowSize - 1)
         /\ \A k \in 1 .. Len(tb.windows[j]) :
              /\ tb.windows[j][k]
                   = MulMod(WindowPower(tb.given, tb.windowSize, j), k)
              /\ tb.windows[j][k]
                   = Windows(NewPrecompPoint(tb.given, tb.windowSize), j, k - 1)

\* A table of 8-bit windows built on projective points has been returned,
\* its tasks having run out of window order.
ProjectiveTableReturned ==
  /\ tb.pc = "returned"
  /\ tb.build = "proj"
  /\ tb.windowSize = 8
  /\ tb.windows[31][128] # Identity

\* ------------------------------------------------- ScalarMul properties
\* The integer in limbs, modulo the group order: the multiple of a point it
\* stands for; st = <<chunk index, sum>>.
RECURSIVE LimbsValue(_, _)
LimbsValue(limbs, st) ==
  IF st[1] >= Limbs * (LimbBits \div ChunkBits) THEN st[2]
  ELSE LimbsValue(limbs,
         << st[1] + 1,
            Add(st[2],
                MulMod(ModPow(Pow2(ChunkBits) % GroupOrder, st[1]),
                       ChunkAt(limbs[(st[1] \div (LimbBits \div ChunkBits)) + 1],
                               st[1] % (LimbBits \div ChunkBits))
                         % GroupOrder)) >>)

\* sum_{j <= n} s_j * P_j over the first n scalars and points of a run.
RECURSIVE ShardSum(_, _, _)
ShardSum(points, scalars, n) ==
  IF n = 0 THEN Identity
  ELSE Add(ShardSum(points, scalars, n - 1),
           MulMod(points[n], LimbsValue(scalars[n], << 0, 0 >>)))

\* C17: PrecompPoint.ScalarMul(s, acc) for s in [0, r) leaves acc equal to
\* its value at entry plus s * P, after at most 256/w mixed additions, each
\* of one table entry or its negation; it never resets acc, so the calls
\* chained on one accumulator leave the sum of their s_i * P_i added to it.
ScalarMulAddsMultiple ==
  wk.pc \in {"ScalarMul", "returned"} =>
    /\ LastWindowApplied
    /\ wk.last.written \subseteq {1}
    /\ wk.adds <= wk.t
    /\ (wk.t = RunWindows(wk.windowSize)
          /\ \A j \in 1 .. wk.i : Reduced(wk.scalars[j]))
         => /\ wk.res = Add(wk.entry,
                            MulMod(wk.points[wk.i],
                                   LimbsValue(RunScalar, << 0, 0 >>)))
            /\ wk.res = Add(wk.res0, ShardSum(wk.points, wk.scalars, wk.i))
            /\ wk.adds <= fieldSizeBits \div wk.windowSize
    /\ wk.pc = "returned" => wk.result = wk.res

\* Two ScalarMul calls with scalars that fill all limbs have returned, chained
\* on an accumulator that did not start at the identity.
ChainedScalarMulReturned ==
  /\ wk.pc = "returned"
  /\ Len(wk.scalars) = 2
  /\ wk.res0 # Identity
  /\ \A j \in 1 .. 2 : ~LimbIsZero(wk.scalars[j][Limbs])
  /\ wk.adds > 1

\* ------------------------------------------------- Pippenger properties
\* C18: with the ladders New builds (ladder_i[m] = (2^c)^m * P_i), when doWork
\* has consumed the scalars of its shard, all in [0, r), the buckets satisfy
\* sum_{k = 1 .. 2^(c-1)} k * B[k] = sum over the shard of s_i * P_i; what
\* bucket 0 holds does not contribute, and the sum sent is that value.
BucketInvariant ==
  /\ (wk.pc = "doWork" /\ wk.last.t >= 0)
       => LadderAt(NewLadder(wk.points[wk.i], wk.windowSize,
                             fieldSizeBits \div wk.windowSize), wk.last.t)
            = WindowPower(wk.points[wk.i], wk.windowSize, wk.last.t)
  /\ (wk.pc = "doWork" /\ ScalarConsumed
        /\ \A j \in 1 .. wk.i : Reduced(wk.scalars[j]))
       => BucketValue(wk.b, wk.windowSize)
            = ShardSum(wk.points, wk.scalars, wk.i)
  /\ (wk.pc = "sent" /\ wk.scalars # << >>
        /\ \A j \in 1 .. Len(wk.scalars) : Reduced(wk.scalars[j]))
       => wk.result = ShardSum(wk.points, wk.scalars, Len(wk.scalars))

\* doWork has consumed a shard of two scalars, with additions into bucket 0
\* and into buckets that count.
ShardAccumulated ==
  /\ wk.pc = "doWork"
  /\ ScalarConsumed
  /\ wk.i = 2
  /\ wk.b[0] # Identity
  /\ Cardinality({k \in DOMAIN wk.b : k >= 1 /\ wk.b[k] # Identity}) >= 2

\* The reduction loop with the IsIdentity test removed.
RECURSIVE BucketReduceUnchecked(_, _)
BucketReduceUnchecked(b, st) ==
  IF st[1] < 1 THEN st[3]
  ELSE BucketReduceUnchecked(b, << st[1] - 1, Add(st[2], b[st[1]]),
                                   Add(st[3], Add(st[2], b[st[1]])) >>)

\* C19: whatever the buckets hold, the running-sum reduction returns
\* sum_{k = 1 .. 2^(c-1)} k * B[k], and the same value as the loop that adds
\* B[k] to tmp without testing it for the identity.
ReductionIsWeightedSum ==
  wk.pc = "sent" =>
    /\ wk.result = BucketValue(wk.b, wk.windowSize)
    /\ wk.result = BucketReduceUnchecked(wk.b, << Pow2(wk.windowSize - 1),
                                                  Identity, Identity >>)

\* A reduction has run over 129 buckets of which some hold the identity,
\* some do not, and bucket 0 is not empty.
ReducedWithHoles ==
  /\ wk.pc = "sent"
  /\ wk.windowSize = 8
  /\ wk.b[0] # Identity
  /\ \E k, m \in 1 .. Pow2(wk.windowSize - 1) :
       wk.b[k] = Identity /\ wk.b[m] # Identity
  /\ wk.result # Identity

\* C20: msmPipper on k' cold scalars uses batches = min(ceil(k'/8), NumCPU)
\* workers, the calling goroutine included; worker i handles the cold
\* indices [floor(i*k'/batches), floor((i+1)*k'/batches)); the shards are
\* contiguous and disjoint and cover every cold index once; each worker
\* pairs scalar i with the ladder of point i, so that its partial sum is the
\* sum of s_i * P_i over its shard; exactly `batches` partial sums are sent
\* and received.
PipperSharding ==
  \A c \in Callers :
    LET rec == calls[c]
        k == rec.coldLen
        batches == rec.cap
        sh(i) == Shard(i, k, batches)
    IN /\ (InContract(c) /\ rec.pc = "pipper")
            => /\ k = Len(ColdScalars(variant, rec.scalars))
               /\ batches = Min((k + minWorkPerRoutine - 1) \div minWorkPerRoutine,
                                numCPU)
               /\ sh(0).lo = 0
               /\ sh(batches - 1).hi = k
               /\ \A i \in 0 .. batches - 2 : sh(i).hi = sh(i + 1).lo
               /\ \A idx \in 0 .. k - 1 :
                    Cardinality({i \in 0 .. batches - 1 :
                                   sh(i).lo <= idx /\ idx < sh(i).hi}) = 1
               /\ rec.workers \subseteq {sh(i) : i \in 1 .. batches - 1}
               /\ Cardinality(rec.workers) + (IF rec.mainWork THEN 1 ELSE 0)
                    + Len(rec.ch) + (batches - rec.need) = batches
               /\ (rec.mainWork /\ Cardinality(rec.workers) = batches - 1)
                    => \A i \in 0 .. batches - 1 :
                         DoWork(variant = "pip256", eng.windowSize,
                                eng.pointsPowers,
                                ColdScalars(variant, rec.scalars),
                                sh(i).lo, sh(i).hi)
                           = Ok(RefRange(rec.scalars, rec.hotLen + sh(i).hi,
                                         << rec.hotLen + sh(i).lo, Identity >>))
       /\ (InContract(c) /\ rec.pc = "done" /\ rec.outcome = "ok" /\ k > 0)
            => /\ rec.workers = {}
               /\ rec.ch = << >>
               /\ rec.need = 0
               /\ ~rec.mainWork
               /\ rec.pipperRes
                    = RefRange(rec.scalars, Len(rec.scalars),
                               << rec.hotLen, Identity >>)

\* msmPipper has returned after three or more workers shared cold scalars
\* that do not divide evenly among them.
UnevenShardsReturned ==
  \E c \in Callers :
    /\ InContract(c)
    /\ calls[c].pc = "done"
    /\ calls[c].outcome = "ok"
    /\ calls[c].cap >= 3
    /\ calls[c].coldLen % calls[c].cap # 0

\* ------------------------------------------------- construction barrier
\* C21: when NewPrecompPoint has returned, and so when New returns the
\* engine, no fill task is left and every window of the table is written in
\* full; a task fills its window from the base (2^w)^j * P that was current
\* when it was created, although the builder's point has moved on since.
ConstructionBarrier ==
  /\ tb.pc \in {"returned", "engine"}
       => /\ tb.tasks = {}
          /\ \A j \in DOMAIN tb.windows :
               Len(tb.windows[j]) = Pow2(tb.windowSize - 1)
  /\ tb.pc = "building"
       => /\ tb.point = WindowPower(tb.given, tb.windowSize, tb.i)
          /\ \A task \in tb.tasks :
               /\ task.i < tb.i
               /\ tb.windows[task.i] = << >>
               /\ task.base = WindowPower(tb.given, tb.windowSize, task.i)
  /\ tb.pc # "idle"
       => \A j \in DOMAIN tb.windows :
            tb.windows[j] # << >>
              => /\ Len(tb.windows[j]) = Pow2(tb.windowSize - 1)
                 /\ tb.windows[j][1] = WindowPower(tb.given, tb.windowSize, j)

\* New has returned an engine whose table saw a task run after the builder
\* had created the task of a later window.
EngineBuiltOutOfOrder ==
  /\ tb.pc = "engine"
  /\ tb.overtaken
  /\ numCPU > 1

\* The indices of scalars[lo .. hi) that one hot loop hands to
\* PrecompPoint.ScalarMul: pip256 tests the bitset of non-zero scalars first,
\* in the serial loop and in every goroutine's range.
ScalarMulCalls(v, scalars, lo, hi) ==
  {i \in lo .. hi - 1 : v = "pip256" => SetTest(scalars, i)}

TableIndices(windowSize, windowValue) ==
  IF windowValue = 0 THEN {}
  ELSE IF windowValue > Pow2(windowSize - 1)
    THEN (IF Pow2(windowSize) - windowValue # 0
            THEN {Pow2(windowSize) - windowValue - 1}
          ELSE {})
  ELSE {windowValue - 1}

\* The indices of buckets that one window of doWork adds into:
\* buckets[-windowValue] after the subtraction of 2^c, buckets[windowValue]
\* otherwise, none when the raw value is 0.
BucketIndices(windowSize, windowValue) ==
  IF windowValue = 0 THEN {}
  ELSE IF windowValue >= Pow2(windowSize - 1)
    THEN {-(windowValue - Pow2(windowSize))}
  ELSE {windowValue}

\* C23: whatever the four limbs hold, below r or not, every window a
\* consumer has passed kept the carry in {0, 1} and the raw value in
\* [0, 2^w]; PrecompPoint.ScalarMul (w in {8, 16}) read window t in
\* [0, 256/w) at a table index in [0, 2^(w-1) - 1], and the entry it added
\* is that entry of the table; doWork (c in {4, 8}) wrote exactly the bucket
\* of its index, which lies in [0, 2^(c-1)], the range of the buckets slice.
RecodingIndexBounds ==
  (wk.pc \in {"ScalarMul", "doWork"} /\ wk.last.t >= 0)
    => LET w == wk.windowSize
           raw == wk.last.raw
           pp == NewPrecompPoint(wk.points[wk.i], w)
       IN /\ wk.carry \in {0, 1}
          /\ wk.last.carryIn \in {0, 1}
          /\ raw \in 0 .. Pow2(w)
          /\ wk.last.t \in 0 .. (fieldSizeBits \div w) - 1
          /\ wk.pc = "ScalarMul"
               => /\ wk.last.t < NumWindowsOf(pp)
                  /\ TableIndices(w, raw) \subseteq 0 .. TableLenOf(pp) - 1
                  /\ TableIndices(w, raw) = {} => wk.last.after = wk.last.before
                  /\ \A j \in TableIndices(w, raw) :
                       wk.last.after
                         = MixedAdd(wk.last.before,
                                    IF wk.last.digit < 0
                                      THEN Neg(Windows(pp, wk.last.t, j))
                                    ELSE Windows(pp, wk.last.t, j))
          /\ wk.pc = "doWork"
               => /\ DOMAIN wk.b = 0 .. Pow2(w - 1)
                  /\ BucketIndices(w, raw) \subseteq DOMAIN wk.b
                  /\ wk.last.written = BucketIndices(w, raw)

\* doWork has passed the top window of limbs that hold no scalar of [0, r),
\* with the raw value 2^c there: it wrote bucket 0 and left a carry that no
\* window takes.
UnreducedTopWindow ==
  /\ wk.pc = "doWork"
  /\ wk.last.t = RunWindows(wk.windowSize) - 1
  /\ ~Reduced(RunScalar)
  /\ wk.last.raw = Pow2(wk.windowSize)
  /\ wk.last.written = {0}
  /\ wk.carry = 1

====
